---- MODULE Spec2Model ----
(***************************************************************************)
(* Model of ExtensionsService                                              *)
(* (shared/src/api/client/services/extensionsService.ts): the reactive     *)
(* pipeline behind enabledExtensions and activeExtensions, the sticky set  *)
(* of activated extension ids, and the memoized script URL resolver; the   *)
(* activation filter applied on its own; and Transaction of package db,    *)
(* which the same file holds (lines 141-196).                              *)
(***************************************************************************)
EXTENDS Integers, Sequences, FiniteSets, TLC

(* ------------------------------ bounds --------------------------------- *)

\* longest list of visible text documents in a model snapshot
MaxDocs == 1
\* most invocations of platformContext.getScriptURLForExtension per URL
MaxCalls == 2
\* most batches started in a recorded run
MaxBatches == 2
\* longest activationEvents list of a manifest given to the activation filter
\* applied on its own
MaxEvents == 2
\* longest list of visible text documents given to the activation filter
\* applied on its own
MaxVisible == 2
\* most calls of Transaction (package db) in a run
MaxTransactions == 2

(* ------------------------- values and inputs --------------------------- *)

ExtIDs == {"a", "b"}
Languages == {"go", "python"}
URLs == {"u1", "u2"}

\* an optional value: <<>> is "no value yet"/null, <<v>> carries v
None == <<>>
Some(v) == <<v>>
IsSome(o) == Len(o) = 1
Val(o) == o[1]

SeqsUpTo(S, n) == UNION {[1..k -> S] : k \in 0..n}

\* Pick<Model, 'visibleTextDocuments'>: a list of documents, or null
Models ==
    {[visibleTextDocuments |-> None]} \cup
    {[visibleTextDocuments |-> Some(d)] : d \in SeqsUpTo([languageId : Languages], MaxDocs)}

\* ConfiguredExtension.manifest: absent, an ErrorLike, or a manifest
MissingManifest == [kind |-> "missing", activationEvents |-> None, url |-> ""]
ErrorManifest == [kind |-> "error", activationEvents |-> None, url |-> ""]
ValidManifest(events, u) == [kind |-> "ok", activationEvents |-> events, url |-> u]

\* a manifest whose activationEvents is set but is not an array (the manifest
\* is parsed JSON): activationEvents.some is not a function
MalformedManifest == [kind |-> "malformed", activationEvents |-> None, url |-> ""]

\* the manifests the catalog can report for each extension id
ManifestsOf(id) ==
    IF id = "a"
    THEN {ValidManifest(Some(<<"onLanguage:go">>), "u1"), ValidManifest(None, "u1"),
          MissingManifest, ErrorManifest}
    ELSE {ValidManifest(Some(<<"onLanguage:python">>), "u2"),
          ValidManifest(Some(<<"*">>), "u2")}

\* viewerConfiguredExtensions: one descriptor per extension id of the settings
Catalogs ==
    {<<[id |-> "a", manifest |-> ma], [id |-> "b", manifest |-> mb]>> :
        ma \in ManifestsOf("a"), mb \in ManifestsOf("b")}

\* the inputs of extensionsWithMatchedActivationEvent applied on its own:
\* activation events (the last one lacks the onLanguage: prefix), manifests
\* of every shape, an enabled list of two descriptors, and models
ActivationEventValues == {"*", "onLanguage:go", "onLanguage:python", "go"}

FilterManifests(u) ==
    {ValidManifest(Some(e), u) : e \in SeqsUpTo(ActivationEventValues, MaxEvents)} \cup
    {ValidManifest(None, u), MissingManifest, ErrorManifest, MalformedManifest}

FilterLists ==
    {<<[id |-> "a", manifest |-> ma], [id |-> "b", manifest |-> mb]>> :
        ma \in FilterManifests("u1"), mb \in FilterManifests("u2")}

FilterModels ==
    {[visibleTextDocuments |-> None]} \cup
    {[visibleTextDocuments |-> Some(d)] : d \in SeqsUpTo([languageId : Languages], MaxVisible)}

\* Go errors: nil is <<>>, an error is the list of its messages (a
\* multierror has several)
NoError == <<>>
\* what db.BeginTx, f, tx.Rollback and tx.Commit can answer
BeginTxResults == {NoError, <<"begin failed">>}
FOutcomes == {[result |-> NoError, panicked |-> FALSE],
              [result |-> <<"f failed">>, panicked |-> FALSE],
              [result |-> NoError, panicked |-> TRUE]}
RollbackResults == {NoError, <<"rollback failed">>}
CommitResults == {NoError, <<"commit failed">>}

\* no call of Transaction has been made
NoTransaction == [pc |-> "idle", err |-> NoError, panicking |-> FALSE, calls |-> <<>>, results |-> <<>>]

\* settings.final.extensions: extension id -> enabled flag
SettingsValues == [ExtIDs -> BOOLEAN]

\* what a call of platformContext.getScriptURLForExtension does: it throws, or
\* it returns a value or promise, which settles as one of Settlements
CallBehaviours == {"throws", "returns"}
Settlements == {"ok", "null", "reject"}

(* ------------------------------ state ---------------------------------- *)

VARIABLES
    status,                 \* "idle" | "subscribed" | "errored": the activeExtensions subscription
    settings,               \* latest value of settingsService.data (optional)
    configuredExtensions,   \* latest value of this.configuredExtensions (optional)
    enabledExtensions,      \* latest value emitted by enabledExtensions (optional)
    model,                  \* latest value of this.model (optional)
    activatedExtensionIDs,  \* the array of the activeExtensions closure
    lastActive,             \* distinctUntilChanged: the last list let through (optional)
    batch,                  \* switchMap: the inner promise being awaited (optional)
    cache,                  \* memoizeAsync: url -> "absent" | "pending" | "null" | script URL
    calls,                  \* url -> number of getScriptURLForExtension invocations
    resolverBehaviour,      \* url -> "unset" | what a call of the platform resolver does for it
    output,                 \* the list the last step handed to the subscriber, if any
    lastDelivery,           \* history: what the delivery of the last step re-enabled and abandoned
    history,                \* history of a recorded run: the batches started and the lists emitted
    evaluation,             \* a function of the service applied on its own: arguments and result (optional)
    transaction             \* Transaction (package db): the call in progress and what the calls returned

vars == <<status, settings, configuredExtensions, enabledExtensions, model,
          activatedExtensionIDs, lastActive, batch, cache, calls,
          resolverBehaviour, output, lastDelivery, history, evaluation, transaction>>

\* the state of the service
service == <<status, settings, configuredExtensions, enabledExtensions, model,
             activatedExtensionIDs, lastActive, batch, cache, calls,
             resolverBehaviour, output, lastDelivery, history>>

\* what the steps of the service leave alone
aside == <<evaluation, transaction>>

pipeline == <<settings, configuredExtensions, enabledExtensions, model, lastActive, batch>>

Range(s) == {s[i] : i \in 1..Len(s)}
IDsOf(exts) == {exts[i].id : i \in 1..Len(exts)}

(* ----------------------- pure helper functions ------------------------- *)

\* isExtensionEnabled(settings.final, id)
isExtensionEnabled(s, id) == s[id]

\* faulty variant of EnabledFilter: the settings are not consulted
EnabledFilterIgnoringSettings(s, configured) == configured

\* enabledExtensions: configuredExtensions.filter(x => isExtensionEnabled(...))
EnabledFilter(s, configured) ==
    SelectSeq(configured, LAMBDA x : isExtensionEnabled(s, x.id))

\* faulty variant of MatchesActivationEvent: the wildcard is tested inside the loop
\* over the visible documents' languages
MatchesActivationEventWildcardPerDocument(x, m) ==
    IF x.manifest.kind # "ok" \/ ~IsSome(x.manifest.activationEvents) THEN FALSE
    ELSE LET events == Val(x.manifest.activationEvents)
             docs == IF IsSome(m.visibleTextDocuments) THEN Val(m.visibleTextDocuments) ELSE <<>>
         IN \E i \in 1..Len(events) : \E j \in 1..Len(docs) :
               events[i] = "*" \/ events[i] = "onLanguage:" \o docs[j].languageId

\* faulty variant of MatchesActivationEvent: only the first visible document
\* is looked at
MatchesActivationEventFirstDocument(x, m) ==
    IF x.manifest.kind # "ok" \/ ~IsSome(x.manifest.activationEvents) THEN FALSE
    ELSE LET events == Val(x.manifest.activationEvents)
             docs == IF IsSome(m.visibleTextDocuments) THEN Val(m.visibleTextDocuments) ELSE <<>>
         IN \E i \in 1..Len(events) :
               \/ events[i] = "*"
               \/ docs # <<>> /\ events[i] = "onLanguage:" \o docs[1].languageId

\* the filter callback of extensionsWithMatchedActivationEvent; for a
\* manifest whose activationEvents is not an array, line 131 throws and the
\* catch of lines 134-137 makes the callback return false
MatchesActivationEvent(x, m) ==
    IF x.manifest.kind = "missing" THEN FALSE
    ELSE IF x.manifest.kind = "error" THEN FALSE
    ELSE IF x.manifest.kind = "malformed" THEN FALSE
    ELSE IF ~IsSome(x.manifest.activationEvents) THEN FALSE
    ELSE LET events == Val(x.manifest.activationEvents)
             docs == IF IsSome(m.visibleTextDocuments) THEN Val(m.visibleTextDocuments) ELSE <<>>
             visibleTextDocumentLanguages == [i \in 1..Len(docs) |-> docs[i].languageId]
         IN \E i \in 1..Len(events) :
               \/ events[i] = "*"
               \/ \E j \in 1..Len(visibleTextDocumentLanguages) :
                     events[i] = "onLanguage:" \o visibleTextDocumentLanguages[j]

\* faulty variant of extensionsWithMatchedActivationEvent: the result of the
\* filter callback is ignored
extensionsWithMatchedActivationEventUnfiltered(enabled, m) == enabled

\* The same filter with the exceptions of its callback made explicit.
\* The body of the try (lines 118-133): the value it returns, or the
\* exception raised by line 131 for an activationEvents that is not an array
EvaluateActivationEvents(x, m) ==
    IF x.manifest.kind = "malformed" THEN "throws"
    ELSE IF MatchesActivationEvent(x, m) THEN "true" ELSE "false"

\* faulty variant of FilterCallback: there is no try/catch around the body
FilterCallbackUncaught(x, m) == EvaluateActivationEvents(x, m)

\* the callback with its try/catch (lines 117-137): an exception is logged
\* and the callback returns false
FilterCallback(x, m) ==
    LET returned == EvaluateActivationEvents(x, m)
    IN IF returned = "throws" THEN "false" ELSE returned

\* the loop of enabledExtensions.filter(callback) over the elements still to
\* visit: an exception that leaves the callback ends it
RECURSIVE FilterFrom(_, _, _)
FilterFrom(acc, enabled, m) ==
    IF enabled = <<>> \/ acc.threw THEN acc
    ELSE LET kept == FilterCallback(Head(enabled), m)
         IN FilterFrom(IF kept = "true" THEN [acc EXCEPT !.list = Append(@, Head(enabled))]
                       ELSE IF kept = "throws" THEN [threw |-> TRUE, list |-> <<>>]
                       ELSE acc,
                       Tail(enabled), m)

\* enabledExtensions.filter(callback) (lines 116-138): the elements the
\* callback keeps, in list order
FilterEnabled(enabled, m) ==
    FilterFrom([threw |-> FALSE, list |-> <<>>], enabled, m)

extensionsWithMatchedActivationEvent(enabled, m) ==
    SelectSeq(enabled, LAMBDA x : MatchesActivationEvent(x, m))

\* faulty variant of PushActivated: the array is rebuilt from the current matches
PushActivatedForgetting(ids, active) ==
    [i \in 1..Len(active) |-> active[i].id]

\* the tap() of activeExtensions: push the ids not yet in the array, in order
RECURSIVE PushActivated(_, _)
PushActivated(ids, active) ==
    IF active = <<>> THEN ids
    ELSE LET x == Head(active)
         IN PushActivated(IF x.id \in Range(ids) THEN ids ELSE Append(ids, x.id), Tail(active))

\* faulty variant of ActiveList: the activated ids are mapped to their enabled
\* extensions, which lists them in the order of their activation
ActiveListInActivationOrder(enabled, ids) ==
    LET present == SelectSeq(ids, LAMBDA id : id \in IDsOf(enabled))
    IN [i \in 1..Len(present) |->
          CHOOSE x \in Range(enabled) : x.id = present[i]]

\* the first map() of activeExtensions
ActiveList(enabled, ids) ==
    SelectSeq(enabled, LAMBDA x : x.id \in Range(ids))

\* isEqual (deep equality) as used by distinctUntilChanged
isEqual(a, b) == a = b

\* getScriptURLFromExtensionManifest: throws unless the manifest is usable
ManifestThrows(x) == x.manifest.kind # "ok"
getScriptURLFromExtensionManifest(x) == x.manifest.url

\* the value a successful platformContext.getScriptURLForExtension yields
ScriptURLFor(u) == "blob:" \o u

\* faulty variant of Settled: a lookup that is still pending counts as settled
SettledOrPending(c, u) == c[u] # "absent"

\* Promise.all: the lookup of u has settled
Settled(c, u) == c[u] \notin {"absent", "pending"}

(* ---------------------- memoized script URL lookup -------------------- *)

\* The function handed to memoizeAsync (lines 103-107), up to its return:
\* Promise.resolve(getScriptURLForExtension(url)).catch(...) yields a promise
\* unless the resolver call itself throws, which happens before there is a
\* promise to attach the .catch to.
FetchScriptURL(u, ro) ==
    IF ro[u] = "throws" THEN "exception" ELSE "promise"

\* memoizeAsync(func, toKey) on memo state st = [cache, calls, failed]: a hit
\* returns the stored promise without calling func; a miss calls func and
\* stores the promise it returns; an exception of func leaves nothing stored.
memoizeAsync(st, key, result) ==
    IF st.cache[key] # "absent" THEN st
    ELSE IF result = "exception"
         THEN [st EXCEPT !.calls[key] = @ + 1, !.failed = TRUE]
         ELSE [st EXCEPT !.calls[key] = @ + 1, !.cache[key] = "pending"]

\* this.memoizedGetScriptURLForExtension(url), keyed by the url itself
memoizedGetScriptURLForExtension(st, u, ro) ==
    memoizeAsync(st, u, FetchScriptURL(u, ro))

\* The synchronous part of the switchMap projection: extensions.map(...) in
\* list order, stopping at the first exception.
RECURSIVE StartBatch(_, _, _)
StartBatch(st, exts, ro) ==
    IF exts = <<>> \/ st.failed THEN st
    ELSE LET x == Head(exts)
         IN IF ManifestThrows(x)
            THEN [st EXCEPT !.failed = TRUE]
            ELSE StartBatch(
                    memoizedGetScriptURLForExtension(st, getScriptURLFromExtensionManifest(x), ro),
                    Tail(exts), ro)

\* Promise.resolve(getScriptURLForExtension(url)).catch(err => null): the
\* value the memoized promise settles to
SettledValue(u, settlement) ==
    IF settlement = "ok" THEN ScriptURLFor(u)
    ELSE IF settlement = "null" THEN "null"
    ELSE "null"

\* faulty variant of ExecutableExtensions: the null entries are not filtered out
ExecutableExtensionsKeepingNull(exts, c) ==
    [i \in 1..Len(exts) |->
        [id |-> exts[i].id, scriptURL |-> c[getScriptURLFromExtensionManifest(exts[i])]]]

\* .then(scriptURL => scriptURL === null ? null : {id, scriptURL}) and the
\* last map(): the entries whose script URL is not null, in list order
RECURSIVE ExecutableExtensions(_, _)
ExecutableExtensions(exts, c) ==
    IF exts = <<>> THEN <<>>
    ELSE LET x == Head(exts)
             scriptURL == c[getScriptURLFromExtensionManifest(x)]
             rest == ExecutableExtensions(Tail(exts), c)
         IN IF scriptURL = "null" THEN rest
            ELSE <<[id |-> x.id, scriptURL |-> scriptURL]>> \o rest

(* ---------------------- the activeExtensions pipeline ------------------ *)

\* faulty variant of PassesDistinct: the lists are compared by their length
PassesDistinctByLength(prev, active) ==
    ~IsSome(prev) \/ Len(Val(prev)) # Len(active)

\* faulty variant of PassesDistinct: every list passes
PassesDistinctAlways(prev, active) == TRUE

\* distinctUntilChanged((a, b) => isEqual(a, b)): does the list pass?
PassesDistinct(prev, active) ==
    ~IsSome(prev) \/ ~isEqual(Val(prev), active)

\* faulty variant of SwitchTo: a list that arrives while a batch is awaited is ignored
SwitchToUnlessBusy(old, new) == IF IsSome(old) THEN old ELSE Some(new)

\* switchMap: the inner subscription after a new list arrived
SwitchTo(old, new) == Some(new)

\* What the platform resolver may do for the URLs a batch can ask it about:
\* a URL it was asked about before behaves as it did then
ResolverChoices(active) ==
    LET asked == {active[i].manifest.url : i \in 1..Len(active)}
    IN {ro \in [URLs -> CallBehaviours] :
          \A u \in URLs :
             IF resolverBehaviour[u] # "unset" THEN ro[u] = resolverBehaviour[u]
             ELSE (u \notin asked \/ cache[u] # "absent") => ro[u] = "returns"}

\* the awaited batch has a script URL lookup that has not settled
Outstanding(b) ==
    /\ IsSome(b)
    /\ \E x \in Range(Val(b).extensions) :
          ~ManifestThrows(x) /\ cache[getScriptURLFromExtensionManifest(x)] = "pending"

\* history: a step that re-enabled nothing and abandoned no batch
NoDelivery == [reenabled |-> {}, abandoned |-> FALSE, reused |-> {}]

\* history: the script URLs of the new list whose lookup the memo cache
\* already holds
Reused(active) ==
    {u \in URLs : /\ cache[u] # "absent"
                  /\ \E x \in Range(active) :
                        ~ManifestThrows(x) /\ getScriptURLFromExtensionManifest(x) = u}

\* history: the activated ids that the enabled list lacked before this
\* delivery and has now
Reenabled(enabled) ==
    {id \in Range(activatedExtensionIDs) :
        /\ IsSome(enabledExtensions)
        /\ id \notin IDsOf(Val(enabledExtensions))
        /\ id \in IDsOf(enabled)}

\* In a recorded run the platform resolver settles each URL the same way
RecordedSettlement(u) == IF u = "u1" THEN "ok" ELSE "null"

\* history: the result of a batch as its list and the resolver alone decide
\* it: the rejection of the projection, or the executable extensions
BatchResult(active, failed) ==
    IF failed THEN [failed |-> TRUE, list |-> <<>>]
    ELSE [failed |-> FALSE,
          list |-> ExecutableExtensions(active,
                      [u \in URLs |-> SettledValue(u, RecordedSettlement(u))])]

\* history: a batch starts
RecordStarted(h, active, failed) ==
    IF IsSome(h)
    THEN Some([Val(h) EXCEPT !.started = Append(@, BatchResult(active, failed))])
    ELSE h

\* history: the awaited batch, the latest started, emits list
RecordEmitted(h, list) ==
    IF IsSome(h)
    THEN Some([Val(h) EXCEPT !.emitted = Append(@, [index |-> Len(Val(h).started), list |-> list])])
    ELSE h

\* One delivery of [model, enabledExtensions] by combineLatest to the
\* tap / map / distinctUntilChanged / switchMap chain.
Cycle(m, enabled) ==
    LET matched == extensionsWithMatchedActivationEvent(enabled, m)
        ids == PushActivated(activatedExtensionIDs, matched)
        active == ActiveList(enabled, ids)
    IN /\ activatedExtensionIDs' = ids
       /\ lastDelivery' =
             LET abandons == PassesDistinct(lastActive, active) /\ Outstanding(batch)
             IN [reenabled |-> Reenabled(enabled),
                 abandoned |-> abandons,
                 reused |-> IF abandons THEN Reused(active) ELSE {}]
       /\ IF PassesDistinct(lastActive, active)
          THEN \E ro \in ResolverChoices(active) :
                 LET st == StartBatch([cache |-> cache, calls |-> calls, failed |-> FALSE],
                                      active, ro)
                     invoked == {u \in URLs : st.calls[u] # calls[u]}
                 IN /\ \A u \in URLs : st.calls[u] <= MaxCalls
                    /\ lastActive' = Some(active)
                    /\ batch' = SwitchTo(batch, [extensions |-> active, failed |-> st.failed])
                    /\ history' = RecordStarted(history, active, st.failed)
                    /\ cache' = st.cache
                    /\ calls' = st.calls
                    /\ resolverBehaviour' =
                          [u \in URLs |-> IF u \in invoked THEN ro[u] ELSE resolverBehaviour[u]]
          ELSE UNCHANGED <<lastActive, batch, cache, calls, resolverBehaviour, history>>

\* combineLatest(from(this.model), this.enabledExtensions) delivers once both
\* sources have a value
Deliver(m, e) ==
    IF IsSome(m) /\ IsSome(e)
    THEN Cycle(Val(m), Val(e))
    ELSE /\ lastDelivery' = NoDelivery
         /\ UNCHANGED <<activatedExtensionIDs, lastActive, batch, cache, calls, resolverBehaviour, history>>

\* combineLatest(from(settings.data), configuredExtensions).pipe(map(filter))
EnabledExtensionsOf(s, c, prev) ==
    IF IsSome(s) /\ IsSome(c) THEN Some(EnabledFilter(Val(s), Val(c))) ELSE prev

(* ------------------------------ actions -------------------------------- *)

Init ==
    /\ status = "idle"
    /\ settings = None
    /\ configuredExtensions = None
    /\ enabledExtensions = None
    /\ model = None
    /\ activatedExtensionIDs = <<>>
    /\ lastActive = None
    /\ batch = None
    /\ cache = [u \in URLs |-> "absent"]
    /\ calls = [u \in URLs |-> 0]
    /\ resolverBehaviour = [u \in URLs |-> "unset"]
    /\ output = None
    /\ lastDelivery = NoDelivery
    /\ history = None
    /\ evaluation = None
    /\ transaction = NoTransaction

\* subscribe to activeExtensions: a new read of the getter makes a new
\* activatedExtensionIDs array; subscribing again to the same observable
\* keeps the array of its closure
Subscribe(fresh) ==
    /\ status # "subscribed"
    /\ status' = "subscribed"
    /\ activatedExtensionIDs' = IF fresh THEN <<>> ELSE activatedExtensionIDs
    /\ output' = None
    /\ lastDelivery' = NoDelivery
    /\ UNCHANGED <<pipeline, cache, calls, resolverBehaviour, history, aside>>

\* faulty variant of Unsubscribe: the teardown also empties the activated array
UnsubscribeForgetting ==
    /\ status = "subscribed"
    /\ status' = "idle"
    /\ settings' = None
    /\ configuredExtensions' = None
    /\ enabledExtensions' = None
    /\ model' = None
    /\ lastActive' = None
    /\ batch' = None
    /\ output' = None
    /\ lastDelivery' = NoDelivery
    /\ activatedExtensionIDs' = <<>>
    /\ UNCHANGED <<cache, calls, resolverBehaviour, history, aside>>

Unsubscribe ==
    /\ status = "subscribed"
    /\ status' = "idle"
    /\ settings' = None
    /\ configuredExtensions' = None
    /\ enabledExtensions' = None
    /\ model' = None
    /\ lastActive' = None
    /\ batch' = None
    /\ output' = None
    /\ lastDelivery' = NoDelivery
    /\ UNCHANGED <<activatedExtensionIDs, cache, calls, resolverBehaviour, history, aside>>

\* settingsService.data emits s
SettingsChange(s) ==
    /\ status = "subscribed"
    /\ settings' = Some(s)
    /\ enabledExtensions' = EnabledExtensionsOf(settings', configuredExtensions, enabledExtensions)
    /\ IF IsSome(configuredExtensions)
       THEN Deliver(model, enabledExtensions')
       ELSE /\ lastDelivery' = NoDelivery
            /\ UNCHANGED <<activatedExtensionIDs, lastActive, batch, cache, calls, resolverBehaviour, history>>
    /\ output' = None
    /\ UNCHANGED <<status, configuredExtensions, model, aside>>

\* this.configuredExtensions emits c
CatalogChange(c) ==
    /\ status = "subscribed"
    /\ configuredExtensions' = Some(c)
    /\ enabledExtensions' = EnabledExtensionsOf(settings, configuredExtensions', enabledExtensions)
    /\ IF IsSome(settings)
       THEN Deliver(model, enabledExtensions')
       ELSE /\ lastDelivery' = NoDelivery
            /\ UNCHANGED <<activatedExtensionIDs, lastActive, batch, cache, calls, resolverBehaviour, history>>
    /\ output' = None
    /\ UNCHANGED <<status, settings, model, aside>>

\* this.model emits m
ModelChange(m) ==
    /\ status = "subscribed"
    /\ model' = Some(m)
    /\ Deliver(model', enabledExtensions)
    /\ output' = None
    /\ UNCHANGED <<status, settings, configuredExtensions, enabledExtensions, aside>>

\* the promise of platformContext.getScriptURLForExtension(u) settles; a
\* rejection is turned into null by the .catch of line 104
ResolverSettles(u, settlement) ==
    /\ cache[u] = "pending"
    /\ cache' = [cache EXCEPT ![u] = SettledValue(u, settlement)]
    /\ output' = None
    /\ lastDelivery' = NoDelivery
    /\ UNCHANGED <<status, pipeline, activatedExtensionIDs, calls, resolverBehaviour, history, aside>>

\* faulty variant of BatchEmits: the list is emitted as soon as one lookup of
\* the batch has settled
BatchEmitsEarly ==
    /\ status = "subscribed"
    /\ IsSome(batch)
    /\ ~Val(batch).failed
    /\ \E x \in Range(Val(batch).extensions) :
          Settled(cache, getScriptURLFromExtensionManifest(x))
    /\ output' = Some(ExecutableExtensions(Val(batch).extensions, cache))
    /\ batch' = None
    /\ lastDelivery' = NoDelivery
    /\ history' = RecordEmitted(history, Val(output'))
    /\ UNCHANGED <<status, settings, configuredExtensions, enabledExtensions, model,
                   lastActive, activatedExtensionIDs, cache, calls, resolverBehaviour, aside>>

\* Promise.all of the awaited batch is fulfilled: the list is emitted
BatchEmits ==
    /\ status = "subscribed"
    /\ IsSome(batch)
    /\ ~Val(batch).failed
    /\ \A x \in Range(Val(batch).extensions) :
          Settled(cache, getScriptURLFromExtensionManifest(x))
    /\ output' = Some(ExecutableExtensions(Val(batch).extensions, cache))
    /\ batch' = None
    /\ lastDelivery' = NoDelivery
    /\ history' = RecordEmitted(history, Val(output'))
    /\ UNCHANGED <<status, settings, configuredExtensions, enabledExtensions, model,
                   lastActive, activatedExtensionIDs, cache, calls, resolverBehaviour, aside>>

\* the promise of the awaited batch is rejected: the output stream ends with
\* an error and the sources are unsubscribed
BatchFails ==
    /\ status = "subscribed"
    /\ IsSome(batch)
    /\ Val(batch).failed
    /\ status' = "errored"
    /\ settings' = None
    /\ configuredExtensions' = None
    /\ enabledExtensions' = None
    /\ model' = None
    /\ lastActive' = None
    /\ batch' = None
    /\ output' = None
    /\ lastDelivery' = NoDelivery
    /\ UNCHANGED <<activatedExtensionIDs, cache, calls, resolverBehaviour, history, aside>>

Next ==
    \/ \E fresh \in BOOLEAN : Subscribe(fresh)
    \/ Unsubscribe
    \/ \E s \in SettingsValues : SettingsChange(s)
    \/ \E c \in Catalogs : CatalogChange(c)
    \/ \E m \in Models : ModelChange(m)
    \/ \E u \in URLs, settlement \in Settlements : ResolverSettles(u, settlement)
    \/ BatchEmits
    \/ BatchFails

Spec == Init /\ [][Next]_vars

\* A recorded run: one subscription, a platform resolver that settles each URL
\* the same way every time, and a history of the batches started and the lists
\* emitted, for comparing runs that get the same input events.
InitRecorded ==
    /\ status = "idle"
    /\ settings = None
    /\ configuredExtensions = None
    /\ enabledExtensions = None
    /\ model = None
    /\ activatedExtensionIDs = <<>>
    /\ lastActive = None
    /\ batch = None
    /\ cache = [u \in URLs |-> "absent"]
    /\ calls = [u \in URLs |-> 0]
    /\ resolverBehaviour = [u \in URLs |-> "unset"]
    /\ output = None
    /\ lastDelivery = NoDelivery
    /\ history = Some([started |-> <<>>, emitted |-> <<>>])
    /\ evaluation = None
    /\ transaction = NoTransaction

WithinRecordedRun == Len(Val(history').started) <= MaxBatches

NextRecorded ==
    \/ status = "idle" /\ Subscribe(TRUE)
    \/ \E s \in SettingsValues : SettingsChange(s) /\ WithinRecordedRun
    \/ \E c \in Catalogs : CatalogChange(c) /\ WithinRecordedRun
    \/ \E m \in Models : ModelChange(m) /\ WithinRecordedRun
    \/ \E u \in URLs : ResolverSettles(u, RecordedSettlement(u))
    \/ BatchEmits
    \/ BatchFails

SpecRecorded == InitRecorded /\ [][NextRecorded]_vars

\* A recorded run in which what is pending happens: every script URL lookup
\* that was started settles, and the promise of the awaited batch, once it is
\* settled, is delivered to switchMap (a microtask). The input events of a
\* recorded run start at most MaxBatches batches, so from some point on no
\* input changes the active list.
SpecEventual ==
    /\ InitRecorded
    /\ [][NextRecorded]_vars
    /\ \A u \in URLs : WF_vars(ResolverSettles(u, RecordedSettlement(u)))
    /\ WF_vars(BatchEmits)
    /\ WF_vars(BatchFails)

\* The activation filter applied on its own, to an enabled list and a model of
\* every shape: what the tap of one delivery computes from them.
ApplyActivationFilter(enabled, m) ==
    /\ evaluation = None
    /\ evaluation' =
          LET filtered == FilterEnabled(enabled, m)
          IN Some([enabledExtensions |-> enabled,
                   model |-> m,
                   threw |-> filtered.threw,
                   matched |-> filtered.list,
                   activated |-> PushActivated(<<>>, filtered.list)])
    /\ UNCHANGED <<service, transaction>>

NextFilter ==
    /\ evaluation = None
    /\ \E enabled \in FilterLists, m \in FilterModels : ApplyActivationFilter(enabled, m)

SpecFilter == Init /\ [][NextFilter]_vars

(* ----------------------- Transaction (package db) ---------------------- *)

\* multierror.Append(err, err2)
multierrorAppend(err, err2) == err \o err2

\* faulty variant of finish: the err it reads is not the named result that
\* return f(tx) sets, so it never sees f's error
finishBlindToError(err, rollback, commit) ==
    [call |-> "Commit", result |-> commit, err |-> commit]

\* finish (lines 171-179): the call it makes on tx, and the named result err
\* after it
finish(err, rollback, commit) ==
    IF err # NoError
    THEN [call |-> "Rollback", result |-> rollback,
          err |-> IF rollback # NoError THEN multierrorAppend(err, rollback) ELSE err]
    ELSE [call |-> "Commit", result |-> commit, err |-> commit]

\* Transaction is called (line 170): the span starts and its defer is
\* registered (lines 181-188)
TxCall ==
    /\ transaction.pc \in {"idle", "done"}
    /\ Len(transaction.results) < MaxTransactions
    /\ transaction' = [transaction EXCEPT !.pc = "BeginTx", !.err = NoError,
                                          !.panicking = FALSE, !.calls = <<>>]
    /\ UNCHANGED <<service, evaluation>>

\* tx, err := db.BeginTx(ctx, nil) (lines 190-194): on an error the function
\* returns it, otherwise finish(tx) is deferred
TxBeginTx(r) ==
    /\ transaction.pc = "BeginTx"
    /\ transaction' = [transaction EXCEPT
                          !.pc = IF r # NoError THEN "return" ELSE "f",
                          !.err = r,
                          !.calls = Append(@, [name |-> "BeginTx", result |-> r, panicked |-> FALSE])]
    /\ UNCHANGED <<service, evaluation>>

\* return f(tx) (line 195): f's error becomes the named result; a panic of f
\* leaves it nil and starts unwinding
TxRunF(o) ==
    /\ transaction.pc = "f"
    /\ transaction' = [transaction EXCEPT
                          !.pc = "finish",
                          !.err = o.result,
                          !.panicking = o.panicked,
                          !.calls = Append(@, [name |-> "f", result |-> o.result, panicked |-> o.panicked])]
    /\ UNCHANGED <<service, evaluation>>

\* the deferred finish(tx) runs (line 194, lines 171-179)
TxFinish(rollback, commit) ==
    /\ transaction.pc = "finish"
    /\ LET done == finish(transaction.err, rollback, commit)
       IN transaction' = [transaction EXCEPT
                             !.pc = "return",
                             !.err = done.err,
                             !.calls = Append(@, [name |-> done.call, result |-> done.result,
                                                  panicked |-> FALSE])]
    /\ UNCHANGED <<service, evaluation>>

\* the deferred span function runs (lines 182-188) and the call ends: it
\* returns err, or the panic of f goes on to the caller
TxReturn ==
    /\ transaction.pc = "return"
    /\ transaction' = [transaction EXCEPT
                          !.pc = "done",
                          !.results = Append(@, [err |-> transaction.err,
                                                 panicked |-> transaction.panicking])]
    /\ UNCHANGED <<service, evaluation>>

NextTransaction ==
    \/ TxCall
    \/ \E r \in BeginTxResults : TxBeginTx(r)
    \/ \E o \in FOutcomes : TxRunF(o)
    \/ \E rollback \in RollbackResults, commit \in CommitResults : TxFinish(rollback, commit)
    \/ TxReturn

SpecTransaction == Init /\ [][NextTransaction]_vars

(* ------------------------------ properties ----------------------------- *)

OutputIDs(o) == {o[i].id : i \in 1..Len(o)}

\* this step delivered a [model, enabledExtensions] pair to the chain
DeliveryStep ==
    /\ status = "subscribed"
    /\ status' = "subscribed"
    /\ IsSome(model')
    /\ IsSome(enabledExtensions')
    /\ <<model, settings, configuredExtensions>> # <<model', settings', configuredExtensions'>>

\* x is enabled with a valid manifest none of whose activation events holds
\* for the current model
EnabledWithoutMatch(x) ==
    /\ x.manifest.kind = "ok"
    /\ IsSome(x.manifest.activationEvents)
    /\ ~MatchesActivationEvent(x, Val(model))

\* C1: stickiness. In every delivery, each id that is already in the activated
\* array (it matched in an earlier cycle) and is in the enabled list of this
\* delivery is in the active list this delivery computes, whatever the visible
\* documents now are.
C1_Stickiness ==
    [][DeliveryStep =>
        \A id \in Range(activatedExtensionIDs) :
            id \in IDsOf(Val(enabledExtensions')) =>
                IsSome(lastActive') /\ id \in IDsOf(Val(lastActive'))]_vars

\* C1 witness: the scenario of the spec: a = onLanguage:go, b = onLanguage:python,
\* the documents are now [python] and the active list is still [a, b]
C1_StickyScenario ==
    /\ status = "subscribed"
    /\ IsSome(model) /\ IsSome(lastActive)
    /\ Val(model).visibleTextDocuments = Some(<<[languageId |-> "python"]>>)
    /\ activatedExtensionIDs = <<"a", "b">>
    /\ Val(lastActive) =
          <<[id |-> "a", manifest |-> ValidManifest(Some(<<"onLanguage:go">>), "u1")],
            [id |-> "b", manifest |-> ValidManifest(Some(<<"onLanguage:python">>), "u2")]>>

\* x's script URL lookup has settled with a value other than null
ResolvedNonNull(x) ==
    /\ ~ManifestThrows(x)
    /\ Settled(cache, getScriptURLFromExtensionManifest(x))
    /\ cache[getScriptURLFromExtensionManifest(x)] # "null"

\* C2: every emitted list has an entry for id exactly when id is in the
\* activated array, an extension with that id is in the current enabled list,
\* and its script URL resolved to a value other than null; the entry carries
\* that value.
C2_OutputMembership ==
    [][IsSome(output') =>
        /\ IsSome(enabledExtensions)
        /\ \A id \in ExtIDs :
              id \in OutputIDs(Val(output')) <=>
                 /\ id \in Range(activatedExtensionIDs)
                 /\ \E x \in Range(Val(enabledExtensions)) : x.id = id /\ ResolvedNonNull(x)
        /\ \A i \in 1..Len(Val(output')) :
              \E x \in Range(Val(enabledExtensions)) :
                 /\ x.id = Val(output')[i].id
                 /\ ResolvedNonNull(x)
                 /\ Val(output')[i].scriptURL = cache[getScriptURLFromExtensionManifest(x)]]_vars

\* C2 witness: a list was emitted that has one of two active extensions, the
\* other's script URL having resolved to null
C2_EmittedWithoutNull ==
    /\ IsSome(output)
    /\ Len(Val(output)) = 1
    /\ IsSome(lastActive)
    /\ Len(Val(lastActive)) = 2
    /\ \E u \in URLs : cache[u] = "null"

\* C3 (as claimed): the platform resolver is invoked at most once per URL
C3_ResolverInvokedAtMostOnce ==
    \A u \in URLs : calls[u] <= 1

\* C4 (as claimed): once the resolver for a URL returned null or failed
\* (rejected or threw), it is not invoked for that URL again, the cached null
\* stays, and no later output has an entry of an extension with that URL
C4_FailedResolutionPermanent ==
    [][\A u \in URLs :
          (cache[u] = "null" \/ resolverBehaviour[u] = "throws") =>
             /\ calls'[u] = calls[u]
             /\ cache[u] = "null" => cache'[u] = "null"
             /\ IsSome(output') =>
                   \A x \in Range(Val(lastActive)) :
                      getScriptURLFromExtensionManifest(x) = u =>
                         x.id \notin OutputIDs(Val(output'))]_vars

\* the descriptor shapes that the activation filter rejects
ExcludedDescriptor(x) ==
    \/ x.manifest.kind = "missing"
    \/ x.manifest.kind = "error"
    \/ ~IsSome(x.manifest.activationEvents)
    \/ Val(x.manifest.activationEvents) = <<>>

\* C5 (as claimed): an enabled extension whose current descriptor has no
\* manifest, an error manifest or no activation events is in no active list
\* and in no emitted list
C5_ExcludedNeverActive ==
    IsSome(enabledExtensions) =>
        \A x \in Range(Val(enabledExtensions)) :
            ExcludedDescriptor(x) =>
                /\ IsSome(lastActive) => x \notin Range(Val(lastActive))
                /\ IsSome(output) => x.id \notin OutputIDs(Val(output))

\* C6: re-enable. In a delivery whose enabled list gains an id that is in the
\* activated array, the active list has that id, it passes
\* distinctUntilChanged, and it is the batch now awaited.
C6_ReEnable ==
    [][(DeliveryStep /\ IsSome(enabledExtensions)) =>
        \A id \in Range(activatedExtensionIDs) :
            (id \notin IDsOf(Val(enabledExtensions)) /\ id \in IDsOf(Val(enabledExtensions'))) =>
                /\ IsSome(lastActive')
                /\ id \in IDsOf(Val(lastActive'))
                /\ lastActive' # lastActive
                /\ IsSome(batch')
                /\ Val(batch').extensions = Val(lastActive')]_vars

\* C6 witness: the last delivery re-enabled an activated extension none of
\* whose activation events matches the current documents, and its list is awaited
C6_ReEnabledWithoutMatch ==
    /\ IsSome(lastActive) /\ IsSome(batch) /\ IsSome(model)
    /\ \E x \in Range(Val(lastActive)) :
          x.id \in lastDelivery.reenabled /\ EnabledWithoutMatch(x)

\* x has a valid manifest whose activation events contain "*"
HasWildcard(x) ==
    /\ x.manifest.kind = "ok"
    /\ IsSome(x.manifest.activationEvents)
    /\ "*" \in Range(Val(x.manifest.activationEvents))

\* C7: wildcard. Once a delivery has been made, every enabled extension whose
\* activation events contain "*" is in the activated array, whatever the model.
C7_Wildcard ==
    (status = "subscribed" /\ IsSome(model) /\ IsSome(enabledExtensions)) =>
        \A x \in Range(Val(enabledExtensions)) :
            HasWildcard(x) => x.id \in Range(activatedExtensionIDs)

\* C7 witness: a wildcard extension is the only activated one under a model
\* whose visibleTextDocuments is null
C7_WildcardWithoutDocuments ==
    /\ status = "subscribed" /\ IsSome(model) /\ IsSome(enabledExtensions)
    /\ Val(model).visibleTextDocuments = None
    /\ \E x \in Range(Val(enabledExtensions)) :
          HasWildcard(x) /\ activatedExtensionIDs = <<x.id>>

\* C8 (as claimed): the output stream never ends with an error
C8_NeverErrors ==
    status # "errored"

\* C9: switch-to-latest. Every emitted list is the result of the latest active
\* list, so an abandoned batch never emits; and a lookup the memo cache holds
\* stays there, keeps its settled value and is not made again.
C9_SwitchToLatest ==
    [][/\ IsSome(output') =>
            /\ IsSome(lastActive)
            /\ \A x \in Range(Val(lastActive)) : ~ManifestThrows(x)
            /\ output' = Some(ExecutableExtensions(Val(lastActive), cache))
       /\ \A u \in URLs :
            cache[u] # "absent" =>
               /\ calls'[u] = calls[u]
               /\ cache'[u] # "absent"
               /\ Settled(cache, u) => cache'[u] = cache[u]]_vars

\* C9 witness: the last delivery abandoned a batch with an outstanding lookup,
\* and the new batch uses a lookup the memo cache already held
C9_AbandonedAndReused ==
    /\ lastDelivery.abandoned
    /\ lastDelivery.reused # {}
    /\ IsSome(batch)

\* the lists a recorded run emitted, and the results of the batches it started
EmittedLists == [i \in 1..Len(Val(history).emitted) |-> Val(history).emitted[i].list]
StartedLists == [i \in 1..Len(Val(history).started) |-> Val(history).started[i].list]

\* no batch is awaited in the live subscription
Quiescent == status = "subscribed" /\ batch = None

\* no batch of the recorded run was rejected
NoBatchFailed == \A i \in 1..Len(Val(history).started) : ~Val(history).started[i].failed

\* C10 (as claimed): determinism independent of timing. The run in which every
\* batch settles and emits before the next input event arrives emits the
\* result of every batch it starts; a run of the same input events, none of
\* whose batches is rejected, that leaves no batch awaited has emitted the
\* same sequence.
C10_SameOutputSequence ==
    (Quiescent /\ NoBatchFailed) => EmittedLists = StartedLists

\* C10 (amended): every emitted list is the result, as the input events and
\* the resolver decide it, of a batch that was started and did not fail, in
\* the order the batches started, each batch emitting at most once; and when
\* no batch is awaited any more, the last list emitted is the result of the
\* last batch started.
C10_OutputsAreBatchResults ==
    LET h == Val(history)
    IN /\ \A i \in 1..Len(h.emitted) :
             /\ h.emitted[i].index \in 1..Len(h.started)
             /\ ~h.started[h.emitted[i].index].failed
             /\ h.emitted[i].list = h.started[h.emitted[i].index].list
       /\ \A i, j \in 1..Len(h.emitted) : i < j => h.emitted[i].index < h.emitted[j].index
       /\ (Quiescent /\ h.started # <<>>) =>
             /\ h.emitted # <<>>
             /\ h.emitted[Len(h.emitted)].index = Len(h.started)

\* C10 witness: the first of two batches was abandoned, the second emitted a
\* list that is not empty, and no batch is awaited
C10_SkippedBatch ==
    /\ Quiescent
    /\ Len(Val(history).started) = 2
    /\ Len(Val(history).emitted) = 1
    /\ Val(history).emitted[1].index = 2
    /\ Val(history).emitted[1].list # <<>>

\* this step subscribes again to the observable a read of activeExtensions
\* returned: the subscription is to the same pipeline, not to that of a new read
SameObservableStep == status = "idle" /\ status' = "subscribed" /\ Subscribe(FALSE)

SubscribeStep == status # "subscribed" /\ status' = "subscribed"

\* C12: the activated array is append-only. In every step of a subscription
\* and in its teardown (a model, settings or catalog change, a lookup that
\* settles, an emission, an unsubscribe, the end of the stream) the array
\* after the step begins with the array before it, and every id the step adds
\* is the id of an extension of the enabled list of that delivery which the
\* activation filter matches against the model of that delivery.
C12_AppendOnly ==
    [][~SubscribeStep =>
        /\ Len(activatedExtensionIDs) <= Len(activatedExtensionIDs')
        /\ SubSeq(activatedExtensionIDs', 1, Len(activatedExtensionIDs)) = activatedExtensionIDs
        /\ Range(activatedExtensionIDs) \subseteq Range(activatedExtensionIDs')
        /\ \A id \in Range(activatedExtensionIDs') \ Range(activatedExtensionIDs) :
              /\ IsSome(enabledExtensions') /\ IsSome(model')
              /\ \E x \in Range(Val(enabledExtensions')) :
                    x.id = id /\ MatchesActivationEvent(x, Val(model'))]_vars

\* C12 witness: the array grew in two cycles (b before a, against the order of
\* the catalog), and b, disabled since, is still in it
C12_GrewTwice ==
    /\ status = "subscribed"
    /\ activatedExtensionIDs = <<"b", "a">>
    /\ IsSome(enabledExtensions)
    /\ "b" \notin IDsOf(Val(enabledExtensions))

\* the list that map() (line 79) hands to distinctUntilChanged in this step
CycleList == ActiveList(Val(enabledExtensions'), activatedExtensionIDs')

\* this step starts a batch: switchMap subscribes to a new inner promise, or
\* the platform resolver is invoked
BatchStarts == (IsSome(batch') /\ batch' # batch) \/ calls' # calls

\* C13: change suppression. A step starts a batch only if it delivers a list
\* that is not deep-equal to the list of the previous batch, and that list is
\* the one awaited; a delivery whose inputs changed but whose list is
\* deep-equal to the list of the previous batch invokes no resolver, leaves
\* the memo cache, the awaited batch and the remembered list as they are, and
\* emits nothing.
C13_ChangeSuppression ==
    [][/\ BatchStarts =>
             /\ status = "subscribed"
             /\ IsSome(model') /\ IsSome(enabledExtensions')
             /\ IsSome(lastActive) => ~isEqual(Val(lastActive), CycleList)
             /\ lastActive' = Some(CycleList)
             /\ Val(batch').extensions = CycleList
       /\ (DeliveryStep /\ IsSome(lastActive) /\ isEqual(Val(lastActive), CycleList)) =>
             /\ calls' = calls
             /\ cache' = cache
             /\ batch' = batch
             /\ lastActive' = lastActive
             /\ output' = None]_vars

\* C13 witness: the list [a] was emitted, every lookup made is one of its
\* lookups and has settled, and the step after the emission, a delivery under
\* a model that no longer matches a, awaits no batch: its list was suppressed
C13_SuppressedAfterEmission ==
    /\ status = "subscribed"
    /\ batch = None
    /\ output = None
    /\ IsSome(lastActive) /\ IsSome(model)
    /\ Len(Val(lastActive)) = 1
    /\ EnabledWithoutMatch(Val(lastActive)[1])
    /\ \A u \in URLs :
          cache[u] # "absent" =>
             /\ Settled(cache, u)
             /\ getScriptURLFromExtensionManifest(Val(lastActive)[1]) = u

\* the visible documents of a model, [] for null (lines 128-130)
DocumentsOf(m) ==
    IF IsSome(m.visibleTextDocuments) THEN Val(m.visibleTextDocuments) ELSE <<>>

\* evaluating the activation events of x against m throws
Throwing(x, m) == EvaluateActivationEvents(x, m) = "throws"

\* C14: per-item failure isolation. Whatever the enabled list and the model,
\* the filter itself does not throw; an extension whose evaluation throws is
\* not in its result; and the result, and the ids activated from it, are
\* those the filter gives for the enabled list without the throwing
\* extensions: each of the others is in it exactly when its own activation
\* events match.
C14_FailureIsolation ==
    IsSome(evaluation) =>
        LET e == Val(evaluation)
            others == SelectSeq(e.enabledExtensions, LAMBDA x : ~Throwing(x, e.model))
        IN /\ ~e.threw
           /\ \A x \in Range(e.enabledExtensions) :
                 Throwing(x, e.model) => x \notin Range(e.matched)
           /\ e.matched = FilterEnabled(others, e.model).list
           /\ e.activated = PushActivated(<<>>, FilterEnabled(others, e.model).list)
           /\ \A x \in Range(others) :
                 x \in Range(e.matched) <=> MatchesActivationEvent(x, e.model)

\* C14 witness: the evaluation of the first extension throws, and the second
\* one is matched and activated
C14_ThrowingThenMatched ==
    /\ IsSome(evaluation)
    /\ Throwing(Val(evaluation).enabledExtensions[1], Val(evaluation).model)
    /\ Val(evaluation).matched = <<Val(evaluation).enabledExtensions[2]>>
    /\ Val(evaluation).activated = <<"b">>

\* d2 lists the documents of d1 in another order (or the same)
IsReordering(d1, d2) ==
    /\ Len(d1) = Len(d2)
    /\ \E f \in [1..Len(d1) -> 1..Len(d1)] :
          /\ \A i, j \in 1..Len(d1) : i # j => f[i] # f[j]
          /\ \A i \in 1..Len(d1) : d2[i] = d1[f[i]]

\* C16: activation matching. Whatever the enabled list and the model, an
\* extension with a valid manifest and a non-empty activationEvents list is
\* in the result of the filter if and only if one of its activation events is
\* "*" or is "onLanguage:" followed by the languageId of a visible document;
\* and the filter gives the same result for every model that lists the same
\* documents in another order.
C16_ActivationMatching ==
    IsSome(evaluation) =>
        LET e == Val(evaluation)
        IN /\ \A x \in Range(e.enabledExtensions) :
                 (/\ x.manifest.kind = "ok"
                  /\ IsSome(x.manifest.activationEvents)
                  /\ Val(x.manifest.activationEvents) # <<>>) =>
                     (x \in Range(e.matched) <=>
                        \E event \in Range(Val(x.manifest.activationEvents)) :
                           \/ event = "*"
                           \/ \E d \in Range(DocumentsOf(e.model)) :
                                 event = "onLanguage:" \o d.languageId)
           /\ \A m \in FilterModels :
                 IsReordering(DocumentsOf(e.model), DocumentsOf(m)) =>
                     FilterEnabled(e.enabledExtensions, m).list = e.matched

\* C16 witness: the documents are [go, python]; a is matched by its second
\* event, for the language of the second document, and b, whose only event
\* is a language without the onLanguage: prefix, is not
C16_MatchedBySecondDocument ==
    /\ IsSome(evaluation)
    /\ DocumentsOf(Val(evaluation).model) = <<[languageId |-> "go"], [languageId |-> "python"]>>
    /\ Val(evaluation).enabledExtensions[1].manifest.activationEvents =
          Some(<<"go", "onLanguage:python">>)
    /\ Val(evaluation).enabledExtensions[2].manifest.activationEvents = Some(<<"go">>)
    /\ Val(evaluation).matched = <<Val(evaluation).enabledExtensions[1]>>

\* C15: batch atomicity. A list is emitted only for the awaited batch, only
\* when every script URL lookup of that batch has settled, and the batch is
\* then no longer awaited, so it emits once; the list has one entry, in list
\* order, for each extension of the batch whose lookup did not yield null, so
\* it reflects every lookup of the batch; and while a lookup of the awaited
\* batch has not settled, nothing is emitted.
C15_BatchAtomicity ==
    [][/\ IsSome(output') =>
             /\ IsSome(batch)
             /\ ~Val(batch).failed
             /\ \A x \in Range(Val(batch).extensions) :
                   /\ ~ManifestThrows(x)
                   /\ Settled(cache, getScriptURLFromExtensionManifest(x))
             /\ cache' = cache
             /\ batch' = None
             /\ Val(output') =
                   LET kept == SelectSeq(Val(batch).extensions,
                                  LAMBDA x : cache[getScriptURLFromExtensionManifest(x)] # "null")
                   IN [i \in 1..Len(kept) |->
                         [id |-> kept[i].id,
                          scriptURL |-> ScriptURLFor(getScriptURLFromExtensionManifest(kept[i]))]]
       /\ Outstanding(batch) => output' = None]_vars

\* C15 witness: a batch of two extensions emitted a list of two entries
C15_EmittedBoth ==
    /\ IsSome(output)
    /\ IsSome(lastActive)
    /\ Len(Val(lastActive)) = 2
    /\ Len(Val(output)) = 2
    /\ \A u \in URLs : cache[u] = ScriptURLFor(u)

\* C17: enabled filter. enabledExtensions has a value exactly when both the
\* settings and the catalog have one, and the value is then the latest catalog
\* list restricted to the descriptors whose id the latest settings enable:
\* the same descriptors, each once, in catalog order. Being an invariant of
\* every reachable state, it holds after every change of either input and
\* whatever the rest of the state is.
C17_EnabledFilter ==
    /\ IsSome(enabledExtensions) <=> (IsSome(settings) /\ IsSome(configuredExtensions))
    /\ IsSome(enabledExtensions) =>
          LET e == Val(enabledExtensions)
              c == Val(configuredExtensions)
              kept == {k \in 1..Len(c) : isExtensionEnabled(Val(settings), c[k].id)}
          IN /\ Len(e) = Cardinality(kept)
             /\ \A k \in 1..Len(c) : k \in kept <=> c[k] \in Range(e)
             /\ \A i, j \in 1..Len(e) :
                   i < j => \E k, l \in kept : k < l /\ c[k] = e[i] /\ c[l] = e[j]

\* C17 witness: a was enabled and activated, the settings now enable b alone,
\* and the enabled list is the catalog's descriptor of b
C17_RestrictedToB ==
    /\ IsSome(enabledExtensions) /\ IsSome(configuredExtensions)
    /\ "a" \in Range(activatedExtensionIDs)
    /\ Val(enabledExtensions) = <<Val(configuredExtensions)[2]>>

\* the positions, among the calls Transaction has made, of tx.Commit and
\* tx.Rollback
FinishingCalls ==
    {i \in 1..Len(transaction.calls) : transaction.calls[i].name \in {"Commit", "Rollback"}}

\* the body of Transaction and its deferred finish have run
TransactionEnded == transaction.pc \in {"return", "done"}

\* C18: Transaction. Commit or Rollback is called only as the third call,
\* after a BeginTx that succeeded and after the call of f has ended, and at
\* most once. When BeginTx succeeded and Transaction has ended, exactly one
\* of them was called: Rollback if and only if f returned a non-nil error,
\* Commit otherwise; and err is f's error, with the Rollback error appended
\* when Rollback failed too, or else what Commit returned. When BeginTx
\* failed, it is the only call made and err is its error. What the call
\* returns is err.
C18_Transaction ==
    LET t == transaction
    IN /\ \A i \in FinishingCalls :
             /\ i = Len(t.calls)
             /\ i = 3
             /\ t.calls[1].name = "BeginTx" /\ t.calls[1].result = NoError
             /\ t.calls[2].name = "f"
       /\ Cardinality(FinishingCalls) <= 1
       /\ (TransactionEnded /\ t.calls[1].result = NoError) =>
             /\ Cardinality(FinishingCalls) = 1
             /\ t.calls[Len(t.calls)].name = "Rollback" <=> t.calls[2].result # NoError
             /\ t.calls[Len(t.calls)].name = "Commit" <=> t.calls[2].result = NoError
             /\ t.err = IF t.calls[2].result = NoError THEN t.calls[Len(t.calls)].result
                        ELSE IF t.calls[Len(t.calls)].result = NoError THEN t.calls[2].result
                        ELSE <<t.calls[2].result[1], t.calls[Len(t.calls)].result[1]>>
       /\ (TransactionEnded /\ t.calls[1].result # NoError) =>
             /\ Len(t.calls) = 1
             /\ t.err = t.calls[1].result
       /\ t.pc = "done" =>
             /\ t.results # <<>>
             /\ t.results[Len(t.results)].err = t.err
             /\ t.results[Len(t.results)].panicked = t.panicking

\* C18 witness: f returned an error, Rollback failed too, and the call
\* returned both errors
C18_RolledBackWithBothErrors ==
    /\ transaction.pc = "done"
    /\ Len(transaction.calls) = 3
    /\ transaction.calls[Len(transaction.calls)].name = "Rollback"
    /\ transaction.results[Len(transaction.results)] =
          [err |-> <<"f failed", "rollback failed">>, panicked |-> FALSE]

\* C19: output order. The entries of every emitted list are in the relative
\* order of their extensions in the enabled list (the one of the delivery
\* that started the batch; a later delivery that left the batch awaited has
\* the same active list), whatever the order in which the ids entered the
\* activated array and in which the lookups settled.
C19_OutputOrder ==
    [][IsSome(output') =>
        /\ IsSome(enabledExtensions)
        /\ \A i \in 1..Len(Val(output')) :
              \E k \in 1..Len(Val(enabledExtensions)) :
                 Val(enabledExtensions)[k].id = Val(output')[i].id
        /\ \A i, j \in 1..Len(Val(output')) :
              i < j =>
                 \E k, l \in 1..Len(Val(enabledExtensions)) :
                    /\ k < l
                    /\ Val(enabledExtensions)[k].id = Val(output')[i].id
                    /\ Val(enabledExtensions)[l].id = Val(output')[j].id]_vars

\* C19 witness: b was activated before a, and the emitted list has a before b
C19_EmittedAgainstActivationOrder ==
    /\ IsSome(output)
    /\ activatedExtensionIDs = <<"b", "a">>
    /\ Len(Val(output)) = 2
    /\ Val(output)[1].id = "a"
    /\ Val(output)[2].id = "b"

\* the last list emitted in the recorded run is the result of the last batch
\* started, the batch of the last active list
LastBatchEmitted ==
    LET h == Val(history)
    IN h.started # <<>> =>
          /\ h.emitted # <<>>
          /\ h.emitted[Len(h.emitted)].index = Len(h.started)
          /\ h.emitted[Len(h.emitted)].list = h.started[Len(h.started)].list

\* C20 (as claimed): eventual output. In a run where every lookup settles and
\* the inputs stop changing the active list, from some point on the last
\* list emitted is the list of the last active list (its extensions with
\* non-null script URLs).
C20_EventualOutput ==
    <>[]LastBatchEmitted

\* C20 without the batches whose projection is rejected: in the same runs,
\* if no batch is rejected, from some point on the last list emitted is the
\* list of the last active list.
C20_EventualOutputUnlessRejected ==
    <>[](NoBatchFailed => LastBatchEmitted)

====
